---- MODULE Spec2Model ----
(***************************************************************************)
(* A model of package bitquery (src/bitquery.go): the request executor Do  *)
(* and the response decoder Unmarshal.                                     *)
(*                                                                         *)
(* JSON text is modelled at the level of lexical tokens: a byte sequence   *)
(* is a sequence of tokens, json.Unmarshal is a parser over that sequence  *)
(* followed by a type-directed decode, and json.RawMessage keeps the       *)
(* tokens of the value it was given.                                       *)
(*                                                                         *)
(* A call is three steps, cut where Do blocks on the network: entering     *)
(* the call up to the built request, HttpClient.Do, and io.ReadAll with    *)
(* everything after it. Calls of different callers interleave at these     *)
(* steps and nowhere else, since all other work is on the call's locals.   *)
(***************************************************************************)
EXTENDS Integers, Sequences, FiniteSets, TLC

\* ------------------------------------------------------------------ tokens

\* A punctuation mark, a literal name (null, true), or a chunk of non-JSON text.
P(c) == [t |-> c, s |-> "", n |-> 0]
\* A string literal.
S(x) == [t |-> "str", s |-> x, n |-> 0]
\* A number literal.
N(i) == [t |-> "num", s |-> "", n |-> i]

\* The first byte of a token, as encoding/json's scanner names it in
\* "invalid character 'c' ...".
FirstChar(tok) ==
    IF tok.t = "str" THEN "\""
    ELSE IF tok.t = "num" THEN "digit"
    ELSE IF tok.t = "null" THEN "n"
    ELSE IF tok.t = "true" THEN "t"
    ELSE tok.t

\* ------------------------------------------------------------------ errors

\* Go's error values. kind names the error type or the fmt.Errorf format;
\* the other fields hold what its text is built from.
Err(kind, ch, value, type, text, msgs) ==
    [kind |-> kind, ch |-> ch, value |-> value, type |-> type,
     text |-> text, msgs |-> msgs]

Nil == Err("nil", "", "", "", <<>>, <<>>)

\* *json.SyntaxError: "invalid character 'ch' <ctx>", or for ch = "EOF"
\* "unexpected end of JSON input".
SyntaxError(ch) == Err("SyntaxError", ch, "", "", <<>>, <<>>)

\* *json.UnmarshalTypeError: "json: cannot unmarshal <value> into Go value of
\* type <type>".
UnmarshalTypeError(value, type) == Err("UnmarshalTypeError", "", value, type, <<>>, <<>>)

\* ------------------------------------------------------------------ parser

\* The scanner of encoding/json (checkValid) together with the tree the
\* decoder walks. A parse result is [ok, val, rest, ch]: the value and the
\* tokens left, or the first byte the scanner rejects ("EOF" at the end of input).
Fail(c) == [ok |-> FALSE, val |-> [k |-> "null"], rest |-> <<>>, ch |-> c]
Done(v, r) == [ok |-> TRUE, val |-> v, rest |-> r, ch |-> ""]

Drop(ts, i) == SubSeq(ts, i + 1, Len(ts))

RECURSIVE ParseValue(_), ParseElems(_, _), ParseMembers(_, _)

\* After '[' and zero or more "value ," groups.
ParseElems(ts, acc) ==
    LET e == ParseValue(ts) IN
    IF ~e.ok THEN e
    ELSE IF e.rest = <<>> THEN Fail("EOF")
    ELSE IF Head(e.rest).t = "]"
         THEN Done([k |-> "arr", a |-> Append(acc, e.val)], Tail(e.rest))
    ELSE IF Head(e.rest).t = ","
         THEN ParseElems(Tail(e.rest), Append(acc, e.val))
    ELSE Fail(FirstChar(Head(e.rest)))

\* After '{' and zero or more "key : value ," groups. A member keeps its
\* value's own tokens (raw), which is what a json.RawMessage field receives.
ParseMembers(ts, acc) ==
    IF ts = <<>> THEN Fail("EOF")
    ELSE IF Head(ts).t # "str" THEN Fail(FirstChar(Head(ts)))
    ELSE IF Len(ts) < 2 THEN Fail("EOF")
    ELSE IF ts[2].t # ":" THEN Fail(FirstChar(ts[2]))
    ELSE
      LET body == Drop(ts, 2)
          e    == ParseValue(body)
          m    == [key |-> Head(ts).s, val |-> e.val,
                   raw |-> SubSeq(body, 1, Len(body) - Len(e.rest))]
      IN
      IF ~e.ok THEN e
      ELSE IF e.rest = <<>> THEN Fail("EOF")
      ELSE IF Head(e.rest).t = "}"
           THEN Done([k |-> "obj", m |-> Append(acc, m)], Tail(e.rest))
      ELSE IF Head(e.rest).t = ","
           THEN ParseMembers(Tail(e.rest), Append(acc, m))
      ELSE Fail(FirstChar(Head(e.rest)))

ParseValue(ts) ==
    IF ts = <<>> THEN Fail("EOF")
    ELSE
      LET h == Head(ts) IN
      CASE h.t = "null" -> Done([k |-> "null"], Tail(ts))
        [] h.t = "true" -> Done([k |-> "bool"], Tail(ts))
        [] h.t = "num"  -> Done([k |-> "num", n |-> h.n], Tail(ts))
        [] h.t = "str"  -> Done([k |-> "str", s |-> h.s], Tail(ts))
        [] h.t = "["    ->
             IF Len(ts) >= 2 /\ ts[2].t = "]"
             THEN Done([k |-> "arr", a |-> <<>>], Drop(ts, 2))
             ELSE ParseElems(Tail(ts), <<>>)
        [] h.t = "{"    ->
             IF Len(ts) >= 2 /\ ts[2].t = "}"
             THEN Done([k |-> "obj", m |-> <<>>], Drop(ts, 2))
             ELSE ParseMembers(Tail(ts), <<>>)
        [] OTHER        -> Fail(FirstChar(h))

\* A whole document: one value and nothing after it.
ParseDocument(ts) ==
    LET e == ParseValue(ts) IN
    IF ~e.ok THEN e
    ELSE IF e.rest # <<>> THEN Fail(FirstChar(Head(e.rest)))
    ELSE e

\* The Value field of an UnmarshalTypeError for a JSON value.
ValueName(v) ==
    CASE v.k = "arr" -> "array"
      [] v.k = "obj" -> "object"
      [] v.k = "num" -> "number"
      [] v.k = "str" -> "string"
      [] v.k = "bool" -> "bool"
      [] OTHER -> "null"

\* ------------------------------------------------------------------ decoder

\* The decoder keeps the first error it saves (d.saveError) and goes on.
FirstErr(e1, e2) == IF e1 # Nil THEN e1 ELSE e2

\* encoding/json matches a key to a field by its exact name, else ignoring case.
FieldSpellings(field) ==
    CASE field = "data"      -> {"data", "Data", "DATA"}
      [] field = "errors"    -> {"errors", "Errors", "ERRORS"}
      [] field = "message"   -> {"message", "Message", "MESSAGE"}
      [] field = "locations" -> {"locations", "Locations", "LOCATIONS"}
      [] field = "line"      -> {"line", "Line", "LINE"}
      [] field = "column"    -> {"column", "Column", "COLUMN"}
      [] field = "x"         -> {"x", "X"}
      [] OTHER               -> {field}

KeyMatches(key, field) == key \in FieldSpellings(field)

\* A JSON value into an int: null leaves it alone, anything but a number is
\* a type error that leaves it alone.
DecodeInt(v, old) ==
    CASE v.k = "num"  -> [v |-> v.n, err |-> Nil]
      [] v.k = "null" -> [v |-> old, err |-> Nil]
      [] OTHER        -> [v |-> old, err |-> UnmarshalTypeError(ValueName(v), "int")]

\* A JSON value into a string.
DecodeString(v, old) ==
    CASE v.k = "str"  -> [v |-> v.s, err |-> Nil]
      [] v.k = "null" -> [v |-> old, err |-> Nil]
      [] OTHER        -> [v |-> old, err |-> UnmarshalTypeError(ValueName(v), "string")]

\* type Locations struct { Line int `json:"line"`; Column int `json:"column"` }
ZeroLocations == [Line |-> 0, Column |-> 0]

RECURSIVE LocationsFields(_, _, _, _)
LocationsFields(ms, i, cur, err) ==
    IF i > Len(ms) THEN [v |-> cur, err |-> err]
    ELSE IF KeyMatches(ms[i].key, "line")
      THEN LET r == DecodeInt(ms[i].val, cur.Line) IN
           LocationsFields(ms, i + 1, [cur EXCEPT !.Line = r.v], FirstErr(err, r.err))
    ELSE IF KeyMatches(ms[i].key, "column")
      THEN LET r == DecodeInt(ms[i].val, cur.Column) IN
           LocationsFields(ms, i + 1, [cur EXCEPT !.Column = r.v], FirstErr(err, r.err))
    ELSE LocationsFields(ms, i + 1, cur, err)

DecodeLocations(v, old) ==
    CASE v.k = "obj"  -> LocationsFields(v.m, 1, old, Nil)
      [] v.k = "null" -> [v |-> old, err |-> Nil]
      [] OTHER        -> [v |-> old,
                          err |-> UnmarshalTypeError(ValueName(v), "bitquery.Locations")]

\* A JSON array into a fresh []Locations: one element per array element,
\* each decoded into a zero value.
RECURSIVE LocationsElems(_, _, _, _)
LocationsElems(a, i, acc, err) ==
    IF i > Len(a) THEN [v |-> acc, err |-> err]
    ELSE LET r == DecodeLocations(a[i], ZeroLocations) IN
         LocationsElems(a, i + 1, Append(acc, r.v), FirstErr(err, r.err))

DecodeLocationsSlice(v, old) ==
    CASE v.k = "arr"  -> LocationsElems(v.a, 1, <<>>, Nil)
      [] v.k = "null" -> [v |-> <<>>, err |-> Nil]
      [] OTHER        -> [v |-> old,
                          err |-> UnmarshalTypeError(ValueName(v), "[]bitquery.Locations")]

\* type ErrorM struct { Message string; Locations []Locations }
ZeroErrorM == [Message |-> "", Locations |-> <<>>]

RECURSIVE ErrorMFields(_, _, _, _)
ErrorMFields(ms, i, cur, err) ==
    IF i > Len(ms) THEN [v |-> cur, err |-> err]
    ELSE IF KeyMatches(ms[i].key, "message")
      THEN LET r == DecodeString(ms[i].val, cur.Message) IN
           ErrorMFields(ms, i + 1, [cur EXCEPT !.Message = r.v], FirstErr(err, r.err))
    ELSE IF KeyMatches(ms[i].key, "locations")
      THEN LET r == DecodeLocationsSlice(ms[i].val, cur.Locations) IN
           ErrorMFields(ms, i + 1, [cur EXCEPT !.Locations = r.v], FirstErr(err, r.err))
    ELSE ErrorMFields(ms, i + 1, cur, err)

DecodeErrorM(v, old) ==
    CASE v.k = "obj"  -> ErrorMFields(v.m, 1, old, Nil)
      [] v.k = "null" -> [v |-> old, err |-> Nil]
      [] OTHER        -> [v |-> old,
                          err |-> UnmarshalTypeError(ValueName(v), "bitquery.ErrorM")]

\* type Errors []ErrorM
RECURSIVE ErrorsElems(_, _, _, _)
ErrorsElems(a, i, acc, err) ==
    IF i > Len(a) THEN [v |-> acc, err |-> err]
    ELSE LET r == DecodeErrorM(a[i], ZeroErrorM) IN
         ErrorsElems(a, i + 1, Append(acc, r.v), FirstErr(err, r.err))

DecodeErrors(v, old) ==
    CASE v.k = "arr"  -> ErrorsElems(v.a, 1, <<>>, Nil)
      [] v.k = "null" -> [v |-> <<>>, err |-> Nil]
      [] OTHER        -> [v |-> old,
                          err |-> UnmarshalTypeError(ValueName(v), "bitquery.Errors")]

\* type Wrapper struct { Data json.RawMessage; Errors Errors }
\* Data receives the raw tokens of its value, whatever the value is.
ZeroWrapper == [Data |-> <<>>, Errors |-> <<>>]

RECURSIVE WrapperFields(_, _, _, _)
WrapperFields(ms, i, cur, err) ==
    IF i > Len(ms) THEN [v |-> cur, err |-> err]
    ELSE IF KeyMatches(ms[i].key, "data")
      THEN WrapperFields(ms, i + 1, [cur EXCEPT !.Data = ms[i].raw], err)
    ELSE IF KeyMatches(ms[i].key, "errors")
      THEN LET r == DecodeErrors(ms[i].val, cur.Errors) IN
           WrapperFields(ms, i + 1, [cur EXCEPT !.Errors = r.v], FirstErr(err, r.err))
    ELSE WrapperFields(ms, i + 1, cur, err)

DecodeWrapper(v, old) ==
    CASE v.k = "obj"  -> WrapperFields(v.m, 1, old, Nil)
      [] v.k = "null" -> [v |-> old, err |-> Nil]
      [] OTHER        -> [v |-> old,
                          err |-> UnmarshalTypeError(ValueName(v), "bitquery.Wrapper")]

\* json.Unmarshal(data, &wrapped) with a fresh wrapped: the whole input is
\* scanned first, and nothing is decoded from an input that is not valid JSON.
UnmarshalWrapper(data) ==
    LET p == ParseDocument(data) IN
    IF ~p.ok THEN [v |-> ZeroWrapper, err |-> SyntaxError(p.ch)]
    ELSE DecodeWrapper(p.val, ZeroWrapper)

\* ------------------------------------------------------------------ targets

\* The caller's ptr. Two shapes of target stand for the caller's types:
\*   ty = "struct":  *struct{ X int `json:"x"` }, its value in X
\*   ty = "slice":   *[]int, its value in L
StructTarget(v) == [ty |-> "struct", X |-> v, L |-> <<>>]
SliceTarget(l) == [ty |-> "slice", X |-> 0, L |-> l]

RECURSIVE StructFields(_, _, _, _)
StructFields(ms, i, cur, err) ==
    IF i > Len(ms) THEN [v |-> cur, err |-> err]
    ELSE IF KeyMatches(ms[i].key, "x")
      THEN LET r == DecodeInt(ms[i].val, cur.X) IN
           StructFields(ms, i + 1, [cur EXCEPT !.X = r.v], FirstErr(err, r.err))
    ELSE StructFields(ms, i + 1, cur, err)

RECURSIVE IntElems(_, _, _, _)
IntElems(a, i, acc, err) ==
    IF i > Len(a) THEN [v |-> acc, err |-> err]
    ELSE LET r == DecodeInt(a[i], 0) IN
         IntElems(a, i + 1, Append(acc, r.v), FirstErr(err, r.err))

DecodeTarget(v, ptr) ==
    IF ptr.ty = "struct"
    THEN CASE v.k = "obj"  -> StructFields(v.m, 1, ptr, Nil)
           [] v.k = "null" -> [v |-> ptr, err |-> Nil]
           [] OTHER        -> [v |-> ptr, err |-> UnmarshalTypeError(ValueName(v), "T")]
    ELSE CASE v.k = "arr"  ->
                LET r == IntElems(v.a, 1, <<>>, Nil) IN
                [v |-> [ptr EXCEPT !.L = r.v], err |-> r.err]
           [] v.k = "null" -> [v |-> [ptr EXCEPT !.L = <<>>], err |-> Nil]
           [] OTHER        -> [v |-> ptr, err |-> UnmarshalTypeError(ValueName(v), "[]int")]

\* json.Unmarshal(data, ptr)
UnmarshalTarget(data, ptr) ==
    LET p == ParseDocument(data) IN
    IF ~p.ok THEN [v |-> ptr, err |-> SyntaxError(p.ch)]
    ELSE DecodeTarget(p.val, ptr)

\* ------------------------------------------------------------------ request

Endpoint1 == "https://graphql.bitquery.io"
Endpoint2 == "https://streaming.bitquery.io/graphql"

\* Values a caller's ToMap() may hold. encoding/json has no encoding for a channel.
GoString(v) == [k |-> "string", s |-> v, n |-> 0]
GoInt(v) == [k |-> "int", s |-> "", n |-> v]
GoChan == [k |-> "chan", s |-> "", n |-> 0]

\* The names a variables map may use, in the order json.Marshal writes a
\* map's keys (sorted).
VarNames == <<"limit", "network">>

\* A BitqueryModel: Query(), ToMap() and Endpoint(). vars is the map, a
\* function from some of VarNames to Go values; isNil says ToMap() is a nil map.
Model(query, isNil, vars, endpoint) ==
    [query |-> query, isNil |-> isNil, vars |-> vars, endpoint |-> endpoint]

\* The encoding of one Go value.
MarshalValue(v) ==
    CASE v.k = "string" -> <<S(v.s)>>
      [] v.k = "int"    -> <<N(v.n)>>
      [] OTHER          -> <<>>

RECURSIVE MarshalEntries(_, _, _)
MarshalEntries(m, i, acc) ==
    IF i > Len(VarNames) THEN acc
    ELSE IF VarNames[i] \notin DOMAIN m THEN MarshalEntries(m, i + 1, acc)
    ELSE MarshalEntries(m, i + 1,
           (IF acc = <<>> THEN <<>> ELSE Append(acc, P(","))) \o
           <<S(VarNames[i]), P(":")>> \o MarshalValue(m[VarNames[i]]))

MarshalMap(x) ==
    IF x.isNil THEN <<P("null")>>
    ELSE <<P("{")>> \o MarshalEntries(x.vars, 1, <<>>) \o <<P("}")>>

\* json.Marshal(map[string]interface{}{"query": x.Query(), "variables": x.ToMap()})
Marshal(x) ==
    IF \E name \in DOMAIN x.vars : x.vars[name].k = "chan"
    THEN [q |-> <<>>, err |-> Err("UnsupportedTypeError", "", "", "chan int", <<>>, <<>>)]
    ELSE [q |-> <<P("{"), S("query"), P(":"), S(x.query), P(","),
                  S("variables"), P(":")>> \o MarshalMap(x) \o <<P("}")>>,
          err |-> Nil]

\* url.Parse rejects a URL whose first segment holds a colon and no scheme.
URLParses(u) == u # ":bad"

NoRequest == [method |-> "", url |-> "", contentType |-> "", apiKey |-> "", body |-> <<>>]

\* http.NewRequest(http.MethodPost, x.Endpoint(), bytes.NewBuffer(q)) and
\* the two headers; "bad request: %v" when the URL does not parse.
NewRequest(apikey, x, q) ==
    IF ~URLParses(x.endpoint)
    THEN [req |-> NoRequest,
          err |-> Err("bad request: %v", "", "missing protocol scheme", "", <<>>, <<>>)]
    ELSE [req |-> [method |-> "POST", url |-> x.endpoint,
                   contentType |-> "application/json", apiKey |-> apikey,
                   body |-> q],
          err |-> Nil]

\* var HttpClient = &http.Client{Timeout: time.Second * 40}
TimeoutSeconds == 40
InitialHttpClient == [Timeout |-> TimeoutSeconds]

\* "the HTTP request failed with error %v"
TransportError(cause) ==
    Err("the HTTP request failed with error %v", "", cause, "", <<>>, <<>>)

\* What Do does when HttpClient.Do fails: it returns.
AfterTransportErrorRetry == "sending"
AfterTransportError == "done"

NoResponse == [status |-> 0, body |-> <<>>]

\* defer response.Body.Close(): the state of the body stream when Do returns.
StreamAfterReadOnSuccessOnly(readOk) == IF readOk THEN "closed" ELSE "open"
StreamAfterRead(readOk) == "closed"

\* io.ReadAll(response.Body) and Do's two returns after it.
ReadError == Err("read", "", "unexpected EOF", "", <<>>, <<>>)

DoResultCheckingStatus(response, readOk) ==
    IF ~readOk THEN [data |-> <<>>, err |-> ReadError]
    ELSE IF response.status >= 400
         THEN [data |-> <<>>, err |-> Err("status", "", "bad status", "", <<>>, <<>>)]
    ELSE [data |-> response.body, err |-> Nil]
DoResult(response, readOk) ==
    IF ~readOk THEN [data |-> <<>>, err |-> ReadError]
    ELSE [data |-> response.body, err |-> Nil]

\* ------------------------------------------------------------------ Unmarshal

\* strings.Contains(err.Error(), "invalid character '<'"): only a syntax
\* error's text names a character, and it names the one the scanner rejected.
ContainsInvalidLTNever(err) == FALSE
ContainsInvalidLT(err) == err.kind = "SyntaxError" /\ err.ch = "<"

\* fmt.Errorf("resp: %v", string(resp))
RespError(resp) == Err("resp: %v", "", "", "", resp, <<>>)

\* func (e ErrorM) String() string
String(e) == e.Message

\* %v of an Errors: "[" the elements' String(), space separated, "]".
FormatErrorsFirstOnly(errors) == <<String(errors[1])>>
FormatErrors(errors) == [i \in 1..Len(errors) |-> String(errors[i])]

\* fmt.Errorf("query error: %v", wrapped.Errors)
QueryError(errors) == Err("query error: %v", "", "", "", <<>>, FormatErrors(errors))

\* if len(wrapped.Errors) != 0
HasErrorsAndNoData(wrapped) == Len(wrapped.Errors) # 0 /\ wrapped.Data = <<>>
HasErrors(wrapped) == Len(wrapped.Errors) # 0

\* What the last json.Unmarshal decodes: wrapped.Data.
PayloadWholeBody(resp, wrapped) == resp
Payload(resp, wrapped) == wrapped.Data

\* return json.Unmarshal(resp, ptr), after an envelope error that is not the
\* '<' one.
FallbackReturningEnvelopeError(resp, ptr, envErr) ==
    [ptr |-> ptr, err |-> envErr, decoded |-> <<>>]
Fallback(resp, ptr, envErr) ==
    LET d == UnmarshalTarget(resp, ptr) IN
    [ptr |-> d.v, err |-> d.err, decoded |-> <<resp>>]

\* Unmarshal, from Do's bytes on. decoded lists the inputs of the calls
\* json.Unmarshal(_, ptr) it made.
UnmarshalResponse(resp, ptr) ==
    LET w == UnmarshalWrapper(resp) IN
    IF w.err # Nil
    THEN IF ContainsInvalidLT(w.err)
         THEN [ptr |-> ptr, err |-> RespError(resp), decoded |-> <<>>]
         ELSE Fallback(resp, ptr, w.err)
    ELSE IF HasErrors(w.v)
         THEN [ptr |-> ptr, err |-> QueryError(w.v.Errors), decoded |-> <<>>]
    ELSE LET d == UnmarshalTarget(Payload(resp, w.v), ptr) IN
         [ptr |-> d.v, err |-> d.err, decoded |-> <<Payload(resp, w.v)>>]

\* ------------------------------------------------------------------ the server's bodies

\* The longest errors array among the generated bodies.
MaxErrors == 2

RECURSIVE Join(_, _)
Join(parts, i) ==
    IF i > Len(parts) THEN <<>>
    ELSE (IF i = 1 THEN <<>> ELSE <<P(",")>>) \o parts[i] \o Join(parts, i + 1)

Arr(elems) == <<P("[")>> \o Join(elems, 1) \o <<P("]")>>
Member(key, toks) == <<S(key), P(":")>> \o toks
Obj(members) == <<P("{")>> \o Join(members, 1) \o <<P("}")>>

\* One element of an errors array: two well-formed errors (the second as in
\* the example response of the Errors comment), one whose message is not a
\* string, and null.
ErrBadField == Obj(<<Member("message", <<S("bad field")>>)>>)
ErrUnknownType ==
    Obj(<<Member("message", <<S("unknown type")>>),
          Member("locations",
                 Arr(<<Obj(<<Member("line", <<N(2)>>), Member("column", <<N(18)>>)>>)>>))>>)
ErrIllTyped == Obj(<<Member("message", <<N(5)>>)>>)
ErrEntries == {ErrBadField, ErrUnknownType, ErrIllTyped, <<P("null")>>}

ErrSeqs == UNION {[1..k -> ErrEntries] : k \in 0..MaxErrors}

\* No generated object repeats a key.
\* A field that is absent has no tokens.
Absent == <<>>
DataX1 == Obj(<<Member("x", <<N(1)>>)>>)
DataFields == {Absent, <<P("null")>>, DataX1, Obj(<<Member("x", <<S("s")>>)>>)}
ErrorsFields == {Absent, <<P("null")>>, <<S("oops")>>} \cup {Arr(es) : es \in ErrSeqs}

Envelope(d, e) ==
    Obj((IF d = Absent THEN <<>> ELSE <<Member("data", d)>>) \o
        (IF e = Absent THEN <<>> ELSE <<Member("errors", e)>>))

EnvelopeBodies == {Envelope(d, e) : d \in DataFields, e \in ErrorsFields}

BareX7 == Obj(<<Member("x", <<N(7)>>)>>)
BareArray == Arr(<<<<N(7)>>>>)
HTMLPage == <<P("<"), P("html>")>>
OtherBodies ==
    { BareX7, BareArray, HTMLPage,
      <<P("null")>>, <<N(7)>>, <<>>, <<P("Not Found")>>,
      Obj(<<Member("x", <<N(7)>>), Member("errors", <<S("oops")>>)>>),
      Obj(<<Member("x", <<N(7)>>), Member("errors", Arr(<<ErrBadField>>))>>),
      Obj(<<Member("x", <<N(7)>>), Member("errors", Arr(<<ErrIllTyped>>))>>),
      Obj(<<Member("data", <<S("<b>")>>)>>),
      Obj(<<Member("data", BareArray)>>),
      Obj(<<Member("Data", DataX1), Member("Errors", Arr(<<ErrBadField>>))>>),
      <<P("{"), S("data"), P(":")>>,
      <<P("{"), S("data"), P(":"), P("<")>>,
      DataX1 \o HTMLPage }

Bodies == EnvelopeBodies \cup OtherBodies

Statuses == {200, 401, 500}

Responses == [status : Statuses, body : Bodies]

\* The fixtures of the two-caller runs.
FewResponses ==
    { [status |-> 200, body |-> Envelope(DataX1, Arr(<<>>))],
      [status |-> 200, body |-> Envelope(<<P("null")>>, Arr(<<ErrBadField>>))],
      [status |-> 500, body |-> HTMLPage] }

\* ------------------------------------------------------------------ callers' inputs

ApiKeys == {"key"}

Models ==
    { Model("{ ethereum { x } }", TRUE, <<>>, Endpoint1),
      Model("query ($limit: Int, $network: String) { x }", FALSE,
            [name \in {"limit", "network"} |->
               IF name = "limit" THEN GoInt(10) ELSE GoString("eth")], Endpoint2),
      Model("query ($limit: Int) { x }", FALSE,
            [name \in {"limit", "network"} |->
               IF name = "limit" THEN GoChan ELSE GoString("eth")], Endpoint1),
      Model("{ ethereum { x } }", FALSE, <<>>, ":bad") }

Targets == {StructTarget(9), SliceTarget(<<>>)}

\* ------------------------------------------------------------------ state

VARIABLES
    frames,      \* per caller: the call it is in, Do's and Unmarshal's locals
    httpClient,  \* the package variable HttpClient
    srv          \* which fixtures the server holds: "all" or "few"

vars == <<frames, httpClient, srv>>

Idle ==
    [pc |-> "idle", op |-> "", apikey |-> "", x |-> Model("", TRUE, <<>>, ""),
     ptr0 |-> StructTarget(0), ptr |-> StructTarget(0),
     req |-> NoRequest, sent |-> <<>>, transport |-> "none", response |-> NoResponse,
     stream |-> "none", read |-> "none",
     data |-> <<>>, err |-> Nil, decoded |-> <<>>]

Callers == DOMAIN frames

\* The responses the server may give.
ServerResponses == IF srv = "all" THEN Responses ELSE FewResponses

\* The response a caller's Do holds in its local variable.
ResponseOfAnyReader(c) ==
    IF \E d \in Callers \ {c} : frames[d].pc = "reading"
    THEN frames[CHOOSE d \in Callers \ {c} : frames[d].pc = "reading"].response
    ELSE frames[c].response
ResponseOf(c) == frames[c].response

\* A caller enters Do(apikey, x) or Unmarshal(apikey, x, ptr): the request is
\* marshalled and built, and the call returns at once if either fails.
Call(c, op, apikey, x, ptr) ==
    /\ frames[c].pc = "idle"
    /\ LET m == Marshal(x)
           r == NewRequest(apikey, x, m.q)
           f == [Idle EXCEPT !.op = op, !.apikey = apikey, !.x = x,
                             !.ptr0 = ptr, !.ptr = ptr]
       IN frames' = [frames EXCEPT ![c] =
            IF m.err # Nil THEN [f EXCEPT !.pc = "done", !.err = m.err]
            ELSE IF r.err # Nil THEN [f EXCEPT !.pc = "done", !.err = r.err]
            ELSE [f EXCEPT !.pc = "sending", !.req = r.req]]
    /\ UNCHANGED <<httpClient, srv>>

\* HttpClient.Do(request) fails: nothing answers, or nothing answers within
\* the client's timeout.
TransportFails(c) ==
    /\ frames[c].pc = "sending"
    /\ \E cause \in {"connection refused", "Client.Timeout exceeded"} :
         /\ cause = "Client.Timeout exceeded" => httpClient.Timeout > 0
         /\ frames' = [frames EXCEPT ![c] =
              [@ EXCEPT !.pc = AfterTransportError,
                        !.sent = Append(@, frames[c].req),
                        !.transport = cause,
                        !.err = TransportError(cause)]]
    /\ UNCHANGED <<httpClient, srv>>

\* HttpClient.Do(request) returns the server's response, its body unread.
TransportAnswers(c) ==
    /\ frames[c].pc = "sending"
    /\ \E r \in ServerResponses :
         frames' = [frames EXCEPT ![c] =
              [@ EXCEPT !.pc = "reading",
                        !.sent = Append(@, frames[c].req),
                        !.transport = "ok",
                        !.response = r,
                        !.stream = "open"]]
    /\ UNCHANGED <<httpClient, srv>>

\* io.ReadAll, the deferred Close, Do's return and, in Unmarshal, the rest
\* of Unmarshal.
ReadBody(c) ==
    /\ frames[c].pc = "reading"
    /\ \E readOk \in BOOLEAN :
         LET d == DoResult(ResponseOf(c), readOk)
             u == UnmarshalResponse(d.data, frames[c].ptr)
             f == [frames[c] EXCEPT !.pc = "done",
                                    !.read = IF readOk THEN "ok" ELSE "failed",
                                    !.stream = StreamAfterRead(readOk)]
         IN frames' = [frames EXCEPT ![c] =
              IF d.err # Nil THEN [f EXCEPT !.err = d.err]
              ELSE IF frames[c].op = "Do" THEN [f EXCEPT !.data = d.data]
              ELSE [f EXCEPT !.ptr = u.ptr, !.err = u.err, !.decoded = u.decoded]]
    /\ UNCHANGED <<httpClient, srv>>

\* The caller takes the result; it may call again.
Return(c) ==
    /\ frames[c].pc = "done"
    /\ frames' = [frames EXCEPT ![c] = Idle]
    /\ UNCHANGED <<httpClient, srv>>

CallAny(c) ==
    \E op \in {"Do", "Unmarshal"}, apikey \in ApiKeys, x \in Models, ptr \in Targets :
        /\ op = "Do" => ptr = StructTarget(9)
        /\ Call(c, op, apikey, x, ptr)

Next ==
    \/ \E c \in Callers : CallAny(c)
    \/ \E c \in Callers : TransportFails(c)
    \/ \E c \in Callers : TransportAnswers(c)
    \/ \E c \in Callers : ReadBody(c)
    \/ \E c \in Callers : Return(c)

\* One caller, every response.
Init ==
    /\ frames = [c \in {"a"} |-> Idle]
    /\ httpClient = InitialHttpClient
    /\ srv = "all"

Spec == Init /\ [][Next]_vars

\* Two callers whose calls interleave, a server with a few fixtures.
InitConc ==
    /\ frames = [c \in {"a", "b"} |-> Idle]
    /\ httpClient = InitialHttpClient
    /\ srv = "few"

SpecConc == InitConc /\ [][Next]_vars

\* ------------------------------------------------------------------ properties

\* A call of Unmarshal that has returned after Do gave it the server's body.
Decoded(f) == f.pc = "done" /\ f.op = "Unmarshal" /\ f.read = "ok"

\* The body's top-level JSON object has an errors member (a key that
\* encoding/json matches to the field), an array of at least one element.
CarriesErrors(body) ==
    LET p == ParseDocument(body) IN
    /\ p.ok
    /\ p.val.k = "obj"
    /\ \E i \in 1..Len(p.val.m) :
         /\ KeyMatches(p.val.m[i].key, "errors")
         /\ p.val.m[i].val.k = "arr"
         /\ Len(p.val.m[i].val.a) > 0

\* The body's top-level JSON object has a data member that is not null.
CarriesData(body) ==
    LET p == ParseDocument(body) IN
    /\ p.ok
    /\ p.val.k = "obj"
    /\ \E i \in 1..Len(p.val.m) :
         KeyMatches(p.val.m[i].key, "data") /\ p.val.m[i].val.k # "null"

\* json.Unmarshal(body, &wrapped) returns no error.
ParsesAsEnvelope(body) == UnmarshalWrapper(body).err = Nil

FailsWithQueryError(f) ==
    /\ f.err.kind = "query error: %v"
    /\ f.ptr = f.ptr0
    /\ f.decoded = <<>>

\* C1, as stated: for every response body that carries a non-empty errors
\* sequence, Unmarshal returns a query error and leaves the target as it was,
\* data payload or not.
C1_EveryErrorsBodyFails ==
    \A c \in Callers :
        (Decoded(frames[c]) /\ CarriesErrors(frames[c].response.body))
            => FailsWithQueryError(frames[c])

\* C1, amended: for every response body that parses as an envelope and
\* carries a non-empty errors sequence, Unmarshal returns a query error,
\* decodes nothing into the target and leaves it as it was, data payload or not.
C1_ParsedErrorsBodyFails ==
    \A c \in Callers :
        (/\ Decoded(frames[c])
         /\ ParsesAsEnvelope(frames[c].response.body)
         /\ CarriesErrors(frames[c].response.body))
            => FailsWithQueryError(frames[c])

\* C1's case: a body with both a data payload and reported errors was refused.
C1_Witness ==
    \E c \in Callers :
        /\ Decoded(frames[c])
        /\ ParsesAsEnvelope(frames[c].response.body)
        /\ CarriesErrors(frames[c].response.body)
        /\ CarriesData(frames[c].response.body)
        /\ frames[c].err.kind = "query error: %v"

\* C2: when the server returns the bare document {"x": 7}, Unmarshal into a
\* struct with field x succeeds and the target holds x = 7.
C2_BareDocumentDecodes ==
    \A c \in Callers :
        (/\ Decoded(frames[c])
         /\ frames[c].response.body = BareX7
         /\ frames[c].ptr0 = StructTarget(9))
            => (frames[c].err = Nil /\ frames[c].ptr.X = 7)

\* The scanner rejects the body at a '<'.
RejectedAtLT(body) ==
    LET p == ParseDocument(body) IN ~p.ok /\ p.ch = "<"

\* C3: when envelope parsing fails on a '<', Unmarshal fails with the error
\* "resp: <body>", which carries the body as it was, and no decode into the
\* target is attempted.
C3_HTMLBodyIsReported ==
    \A c \in Callers :
        (Decoded(frames[c]) /\ RejectedAtLT(frames[c].response.body))
            => /\ frames[c].err.kind = "resp: %v"
               /\ frames[c].err.text = frames[c].response.body
               /\ frames[c].decoded = <<>>
               /\ frames[c].ptr = frames[c].ptr0

\* C3's case: an HTML page came back and was reported.
C3_Witness ==
    \E c \in Callers :
        /\ Decoded(frames[c])
        /\ frames[c].response.body = HTMLPage
        /\ frames[c].err.kind = "resp: %v"
        /\ frames[c].err.text = HTMLPage

\* The tokens of the data member of the body's top-level object (none when
\* it has no such member).
RECURSIVE DataTokens(_, _, _)
DataTokens(ms, i, acc) ==
    IF i > Len(ms) THEN acc
    ELSE DataTokens(ms, i + 1, IF KeyMatches(ms[i].key, "data") THEN ms[i].raw ELSE acc)

DataOf(body) ==
    LET p == ParseDocument(body) IN
    IF p.ok /\ p.val.k = "obj" THEN DataTokens(p.val.m, 1, <<>>) ELSE <<>>

\* C4: when the body parses as an envelope with no errors, Unmarshal decodes
\* the data payload, and only it, into the target: its result is that
\* decode's result, success with the decoded target or the decode's error.
C4_DataPayloadIsDecoded ==
    \A c \in Callers :
        LET f == frames[c]
            body == f.response.body
            d == UnmarshalTarget(DataOf(body), f.ptr0)
        IN (/\ Decoded(f)
            /\ ParsesAsEnvelope(body)
            /\ ~CarriesErrors(body))
               => /\ f.decoded = <<DataOf(body)>>
                  /\ f.ptr = d.v
                  /\ f.err = d.err
                  /\ (body = Envelope(DataX1, Arr(<<>>)) /\ f.ptr0 = StructTarget(9))
                        => (f.err = Nil /\ f.ptr.X = 1)

\* C4's case: {"data": {"x": 1}, "errors": []} was decoded into x = 1.
C4_Witness ==
    \E c \in Callers :
        /\ Decoded(frames[c])
        /\ frames[c].response.body = Envelope(DataX1, Arr(<<>>))
        /\ frames[c].ptr0 = StructTarget(9)
        /\ frames[c].ptr.X = 1
        /\ frames[c].err = Nil

\* The request body is the JSON object {query, variables} of the model x.
CarriesQuery(body, x) ==
    LET p == ParseDocument(body) IN
    /\ p.ok
    /\ p.val.k = "obj"
    /\ Len(p.val.m) = 2
    /\ p.val.m[1].key = "query"
    /\ p.val.m[1].val.k = "str"
    /\ p.val.m[1].val.s = x.query
    /\ p.val.m[2].key = "variables"
    /\ LET v == p.val.m[2].val IN
       IF x.isNil THEN v.k = "null"
       ELSE /\ v.k = "obj"
            /\ {v.m[i].key : i \in 1..Len(v.m)} = DOMAIN x.vars
            /\ Len(v.m) = Cardinality(DOMAIN x.vars)
            /\ \A i \in 1..Len(v.m) :
                 LET g == x.vars[v.m[i].key] IN
                 \/ g.k = "string" /\ v.m[i].val.k = "str" /\ v.m[i].val.s = g.s
                 \/ g.k = "int" /\ v.m[i].val.k = "num" /\ v.m[i].val.n = g.n

\* Serialization and request construction succeed for the model x.
Sendable(x) ==
    /\ \A name \in DOMAIN x.vars : x.vars[name].k # "chan"
    /\ URLParses(x.endpoint)

\* C5: a call of Do or Unmarshal hands HttpClient exactly one POST when
\* serialization and request construction succeed and none when either
\* fails, never a second one; the POST goes to the model's endpoint and its
\* body is the JSON object {query, variables} of the model.
C5_OnePostPerCall ==
    \A c \in Callers :
        LET f == frames[c] IN
        /\ Len(f.sent) <= 1
        /\ f.pc = "done" => Len(f.sent) = (IF Sendable(f.x) THEN 1 ELSE 0)
        /\ \A i \in 1..Len(f.sent) :
             /\ f.sent[i].method = "POST"
             /\ f.sent[i].url = f.x.endpoint
             /\ f.sent[i].apiKey = f.apikey
             /\ f.sent[i].contentType = "application/json"
             /\ CarriesQuery(f.sent[i].body, f.x)

\* C5's case: the transport failed and the call returned after its one POST.
C5_Witness ==
    \E c \in Callers :
        /\ frames[c].pc = "done"
        /\ frames[c].transport = "connection refused"
        /\ Len(frames[c].sent) = 1
        /\ DOMAIN frames[c].x.vars # {}

\* C6: when Do has returned, the body stream is closed if a response was
\* obtained, whether reading it succeeded or failed, and no stream exists if
\* none was obtained.
C6_StreamClosedOnReturn ==
    \A c \in Callers :
        frames[c].pc = "done" =>
            /\ frames[c].transport = "ok" => frames[c].stream = "closed"
            /\ frames[c].transport # "ok" => frames[c].stream = "none"

\* C6's case: reading the body failed and the stream was closed all the same.
C6_Witness ==
    \E c \in Callers :
        /\ frames[c].pc = "done"
        /\ frames[c].read = "failed"
        /\ frames[c].stream = "closed"

\* C7: when the transport succeeds and the body is read in full, Do returns
\* no error and the bytes of the server's body, whatever the status code.
C7_DoReturnsTheBody ==
    \A c \in Callers :
        (frames[c].pc = "done" /\ frames[c].op = "Do" /\ frames[c].read = "ok")
            => (frames[c].err = Nil /\ frames[c].data = frames[c].response.body)

\* C7's case: a 500 response with a body was returned as it was.
C7_Witness ==
    \E c \in Callers :
        /\ frames[c].pc = "done"
        /\ frames[c].op = "Do"
        /\ frames[c].response.status = 500
        /\ frames[c].response.body = HTMLPage
        /\ frames[c].data = HTMLPage
        /\ frames[c].err = Nil

\* The messages a body reports, in its order: the string that follows each
\* "message" key.
RECURSIVE ReportedMessages(_, _)
ReportedMessages(body, i) ==
    IF i + 2 > Len(body) THEN <<>>
    ELSE IF body[i] = S("message") /\ body[i + 1].t = ":" /\ body[i + 2].t = "str"
         THEN <<body[i + 2].s>> \o ReportedMessages(body, i + 3)
    ELSE ReportedMessages(body, i + 1)

Named(m) == m # ""

\* C8: the query error Unmarshal returns holds the message of every
\* reported error, in the server's order, and no other message.
C8_EveryMessageKept ==
    \A c \in Callers :
        (Decoded(frames[c]) /\ frames[c].err.kind = "query error: %v")
            => SelectSeq(frames[c].err.msgs, Named)
                 = ReportedMessages(frames[c].response.body, 1)

\* C8's case: two errors were reported and both are in the query error, in order.
C8_Witness ==
    \E c \in Callers :
        /\ Decoded(frames[c])
        /\ frames[c].err.kind = "query error: %v"
        /\ frames[c].err.msgs = <<"unknown type", "bad field">>

\* Two calls with the same arguments that met the same transport outcome,
\* the same response and the same outcome of reading it.
SameCall(f, g) ==
    /\ f.op = g.op
    /\ f.apikey = g.apikey
    /\ f.x = g.x
    /\ f.ptr0 = g.ptr0
    /\ f.transport = g.transport
    /\ f.response = g.response
    /\ f.read = g.read

\* C9: no call writes HttpClient, and two calls with the same arguments
\* whose requests the server answered the same way return the same result,
\* however the calls of the two callers interleave.
C9_CallsDoNotInterfere ==
    /\ httpClient = InitialHttpClient
    /\ \A c1, c2 \in Callers :
         (/\ frames[c1].pc = "done"
          /\ frames[c2].pc = "done"
          /\ SameCall(frames[c1], frames[c2]))
             => /\ frames[c1].err = frames[c2].err
                /\ frames[c1].data = frames[c2].data
                /\ frames[c1].ptr = frames[c2].ptr

\* C9's case: two callers made the same request, got the same response and
\* decoded the same value.
C9_Witness ==
    \E c1, c2 \in Callers :
        /\ c1 # c2
        /\ Decoded(frames[c1])
        /\ Decoded(frames[c2])
        /\ SameCall(frames[c1], frames[c2])
        /\ frames[c1].ptr.X = 1
        /\ frames[c2].ptr.X = 1

\* C10: when envelope parsing fails for a reason other than '<', the result
\* of Unmarshal is the result of json.Unmarshal(body, ptr): the target it
\* leaves and the error it returns, nil included; a type error of the
\* envelope is never what is returned.
C10_FallbackDecodesBody ==
    \A c \in Callers :
        LET f == frames[c]
            body == f.response.body
            d == UnmarshalTarget(body, f.ptr0)
        IN (/\ Decoded(f)
            /\ ~ParsesAsEnvelope(body)
            /\ ~RejectedAtLT(body))
               => /\ f.decoded = <<body>>
                  /\ f.ptr = d.v
                  /\ f.err = d.err
                  /\ f.err.kind = "UnmarshalTypeError"
                        => f.err.type \notin {"bitquery.Wrapper", "bitquery.Errors",
                                              "bitquery.ErrorM", "string"}

\* C10's case: the envelope did not parse (errors is a string) and the body
\* was decoded into the target.
C10_Witness ==
    \E c \in Callers :
        /\ Decoded(frames[c])
        /\ frames[c].response.body =
             Obj(<<Member("x", <<N(7)>>), Member("errors", <<S("oops")>>)>>)
        /\ frames[c].ptr0 = StructTarget(9)
        /\ frames[c].ptr.X = 7
        /\ frames[c].err = Nil

====
